---- MODULE Spec2Model ----
(***************************************************************************)
(* pybullet_ros_node.py: the ROS wrapper of the pybullet simulator.        *)
(* Threads: the main thread (constructor of pyBulletRosWrapper, then the   *)
(* loop of start_pybullet_ros_wrapper), one callback thread per command    *)
(* topic (pveControl.pvt_controlCB), and the service handler threads       *)
(* (reset_simulation, pause_physics, unpause_physics).  Every step of a    *)
(* thread is one action; the threads interleave at statement granularity.  *)
(***************************************************************************)
EXTENDS Integers, Sequences, FiniteSets, TLC

\* ---------------------------------------------------------------- bounds
MaxTicks == 2      \* loop iterations explored
MaxCtl == 2        \* service requests handled in a run

\* The command messages published in a run.  The k-th message carries the
\* value k (msg.data), so that every message is told from every other and
\* from None.
Messages == {1, 2}

\* A run is explored with every message delivered when no service request is
\* handled in it, and with all but the last when up to MaxCtl requests are.
MayWrite(w, c) == w + 1 \in Messages /\ (c = 0 \/ w + 2 \in Messages)
MayRequest(w, c) == c < MaxCtl /\ w + 1 \in Messages

\* ------------------------------------------------------ program constants
None == 0                    \* pveControl.cmd before the first command
JOINT_REVOLUTE == 0          \* info[2] == 0
max_effort_vel_mode == 50    \* default of ~max_effort_vel_mode

\* joint types pybullet reports: revolute and one other kind
JointTypes == {JOINT_REVOLUTE, 4}
\* the joints of the URDF model, by pybullet joint index
JointIds == {0, 1}
JointName(j) == IF j = 0 THEN "hip" ELSE IF j = 1 THEN "knee" ELSE "ankle"

\* controller types, in the order pve_ctrl_cmd walks them
ModeSeq == <<"position", "velocity", "effort">>
Modes == {"position", "velocity", "effort"}
Buffers == Modes \X JointIds

VARIABLES
  \* ---- main thread
  pc,                \* position of the main thread (line of the source)
  ck,                \* constructor: position in joint_index_name_dictionary
  cm,                \* constructor: position in ModeSeq of the pveControl being built
  \* ---- pyBulletRosWrapper fields
  pause_simulation,
  joint_index_name_dictionary,   \* ordered dict: sequence of [index, name]
  joint_indices,
  force_commands,
  subscribers,       \* pc_/vc_/ec_subscribers: mode -> sequence of joint indices
  \* ---- pveControl fields, per (controller type, joint index)
  cmd,
  data_available,
  subscribed,        \* buffers whose rospy.Subscriber is registered
  \* ---- ROS and the engine
  services,          \* registered service names
  shutdown,          \* rospy.is_shutdown()
  connected,         \* engine connection: "none", "open", "closed"
  robot,             \* joint types of the loaded body, by joint index
  world,             \* engine world: "empty", "loaded", "reset"
  joint_states,      \* last message published on /joint_states
  npub,              \* number of messages published (capped by MaxTicks)
  \* ---- callback threads, per buffer
  wpc,               \* "idle", or "l36": data_available set, cmd not yet stored
  wval,              \* msg.data of the callback in progress
  \* ---- reset handler thread
  rpc,               \* "idle", or "l202": inside pb.resetSimulation()
  \* ---- locals of the loop
  paused_read,       \* value of self.pause_simulation read at line 246
  joint_msg,         \* publish_joint_states: message under assembly
  dm, dk,            \* pve_ctrl_cmd: position in ModeSeq and in the subscriber list
  commands,          \* mode -> *_joint_commands
  ctrl_task,         \* mode -> *_ctrl_task
  \* ---- counters that bound the run
  ticks, nwrites, nctl,
  \* ---- history
  startup_pause,     \* ~pause_simulation as read at line 80, kept to the end of the first tick
  lastCtl,           \* last pause/unpause request handled: [req, phase]
  tickCtl,           \* lastCtl as it was when line 246 read the flag
  tickLog,           \* engine and ROS calls of the current tick, in order
  calls,             \* setJointMotorControlArray calls of the current tick
  dispatched,        \* pve_ctrl_cmd reached its forwarding part in this tick
  seen,              \* buffer -> is_data_available() as read in this dispatch
  stale,             \* buffer -> pending when the dispatch began, not written since
  lastWritten,       \* buffer -> value of the last completed callback
  wclean,            \* buffer -> no drain step met the callback in progress
  wpaused,           \* buffer -> the callback in progress began in a paused tick
  fresh,             \* buffer -> whole callbacks run since the last drain step
  pausedWrite,       \* buffer -> a whole callback ran inside paused ticks, not drained since
  quiet,             \* buffer -> drained, and no callback step since
  credit,            \* buffer -> callbacks begun minus values handed to dispatch
  drain,             \* report of the drain in progress or last finished
  firstNames,        \* names of the first /joint_states message
  handed             \* values get_cmd has returned to pve_ctrl_cmd so far

ctorVars == <<ck, cm>>
wrapperVars == <<pause_simulation, joint_index_name_dictionary, joint_indices,
                 force_commands, subscribers>>
bufVars == <<cmd, data_available, subscribed>>
envVars == <<services, shutdown, connected, robot, world, joint_states, npub>>
cbVars == <<wpc, wval>>
loopVars == <<paused_read, joint_msg, dm, dk, commands, ctrl_task>>
boundVars == <<ticks, nwrites, nctl>>
histVars == <<startup_pause, lastCtl, tickCtl, tickLog, calls, dispatched, seen,
              stale, lastWritten, wclean, wpaused, fresh, pausedWrite, quiet,
              credit, drain, firstNames, handed>>
vars == <<pc, rpc, ctorVars, wrapperVars, bufVars, envVars, cbVars, loopVars,
          boundVars, histVars>>

\* ------------------------------------------------------------- helpers
numj == Len(joint_index_name_dictionary)
NoCtl == [req |-> "none", phase |-> "none"]
NoDrain == [buf |-> <<"none", 0>>, fresh |-> 0, quiet |-> FALSE,
            pending |-> FALSE, done |-> FALSE, value |-> None, last |-> None]
EmptyFrames == [m \in Modes |-> <<>>]
NoTasks == [m \in Modes |-> FALSE]
AllFalse == [b \in Buffers |-> FALSE]

CtorPcs == {"c75", "c80", "c82", "c84", "c86", "c87", "c91", "c100", "c102",
            "c113", "c25", "c26", "c27"}
EndPcs == {"exited", "crashed", "done"}
\* the process is alive: callbacks and handlers run only then
Alive == pc \notin EndPcs
CtorDone == pc \notin CtorPcs
\* when a request is handled: before line 100 has run ("early"), later in the
\* constructor ("ctor"), or once the constructor has returned ("run")
Phase ==
  IF pc \in {"c84", "c86", "c87", "c91", "c100"} THEN "early"
  ELSE IF CtorDone THEN "run" ELSE "ctor"

Init ==
  /\ pc = "c75" /\ ck = 1 /\ cm = 1 /\ rpc = "idle"
  /\ pause_simulation = FALSE
  /\ joint_index_name_dictionary = <<>>
  /\ joint_indices = <<>> /\ force_commands = <<>>
  /\ subscribers = EmptyFrames
  /\ cmd = [b \in Buffers |-> None]
  /\ data_available = AllFalse
  /\ subscribed = {}
  /\ services = {} /\ shutdown = FALSE /\ connected = "none"
  /\ robot = [j \in JointIds |-> JOINT_REVOLUTE] /\ world = "empty"
  /\ joint_states = <<>> /\ npub = 0
  /\ wpc = [b \in Buffers |-> "idle"] /\ wval = [b \in Buffers |-> None]
  /\ paused_read = FALSE /\ joint_msg = <<>> /\ dm = 1 /\ dk = 1
  /\ commands = EmptyFrames /\ ctrl_task = NoTasks
  /\ ticks = 0 /\ nwrites = 0 /\ nctl = 0
  /\ startup_pause = FALSE /\ lastCtl = NoCtl /\ tickCtl = NoCtl
  /\ tickLog = <<>> /\ calls = <<>> /\ dispatched = FALSE
  /\ seen = AllFalse /\ stale = AllFalse
  /\ lastWritten = [b \in Buffers |-> None]
  /\ wclean = AllFalse /\ wpaused = AllFalse
  /\ fresh = [b \in Buffers |-> 0]
  /\ pausedWrite = AllFalse /\ quiet = AllFalse
  /\ credit = [b \in Buffers |-> 0]
  /\ drain = NoDrain /\ firstNames = <<>> /\ handed = {}

\* ------------------------------------------------- constructor (65-123)
\* lines 75-78: the mandatory URDF path; the node exits when it is not set
ctor_urdf_path ==
  /\ pc = "c75"
  /\ \E given \in BOOLEAN : pc' = IF given THEN "c80" ELSE "exited"
  /\ UNCHANGED <<rpc, ctorVars, wrapperVars, bufVars, envVars, cbVars, loopVars,
                 boundVars, histVars>>

\* line 80: self.pause_simulation = rospy.get_param('~pause_simulation', False)
ctor_pause_param ==
  /\ pc = "c80"
  /\ \E v \in BOOLEAN : pause_simulation' = v /\ startup_pause' = v
  /\ pc' = "c82"
  /\ UNCHANGED <<rpc, ctorVars, joint_index_name_dictionary, joint_indices,
                 force_commands, subscribers, bufVars, envVars, cbVars, loopVars,
                 boundVars, lastCtl, tickCtl, tickLog, calls, dispatched, seen,
                 stale, lastWritten, handed, wclean, wpaused, fresh, pausedWrite, quiet,
                 credit, drain, firstNames>>

\* line 82: start_gui -> pb.connect
start_gui ==
  /\ pc = "c82"
  /\ connected' = "open"
  /\ pc' = "c84"
  /\ UNCHANGED <<rpc, ctorVars, wrapperVars, bufVars, services, shutdown, robot,
                 world, joint_states, npub, cbVars, loopVars, boundVars, histVars>>

\* lines 84, 86, 87: rospy.Service(...); from then on the handler can be called
ctor_service(at, name, next) ==
  /\ pc = at
  /\ services' = services \cup {name}
  /\ pc' = next
  /\ UNCHANGED <<rpc, ctorVars, wrapperVars, bufVars, shutdown, connected, robot,
                 world, joint_states, npub, cbVars, loopVars, boundVars, histVars>>

ctor_services ==
  \/ ctor_service("c84", "reset_simulation", "c86")
  \/ ctor_service("c86", "pause_physics", "c87")
  \/ ctor_service("c87", "unpause_physics", "c91")

\* lines 89-98: the robot and the plane are loaded into the engine
ctor_load_urdf ==
  /\ pc = "c91"
  /\ \E r \in [JointIds -> JointTypes] : robot' = r
  /\ world' = "loaded"
  /\ pc' = "c100"
  /\ UNCHANGED <<rpc, ctorVars, wrapperVars, bufVars, services, shutdown, connected,
                 joint_states, npub, cbVars, loopVars, boundVars, histVars>>

\* line 100: self.pause_simulation = False
StartupPauseBug == pause_simulation
StartupPause == FALSE

ctor_unpause ==
  /\ pc = "c100"
  /\ pause_simulation' = StartupPause
  /\ pc' = "c102"
  /\ UNCHANGED <<rpc, ctorVars, joint_index_name_dictionary, joint_indices,
                 force_commands, subscribers, bufVars, envVars, cbVars, loopVars,
                 boundVars, histVars>>

\* get_joint_names (149-161): the revolute joints, by ascending joint index
RECURSIVE JointNamesFrom(_, _)
JointNamesFrom(rob, j) ==
  IF j >= Cardinality(DOMAIN rob) THEN <<>>
  ELSE (IF rob[j] = JOINT_REVOLUTE
          THEN <<[index |-> j, name |-> JointName(j)]>>
          ELSE <<>>) \o JointNamesFrom(rob, j + 1)

get_joint_names == JointNamesFrom(robot, 0)

\* lines 102-111
ctor_registry ==
  /\ pc = "c102"
  /\ joint_index_name_dictionary' = get_joint_names
  /\ force_commands' = <<>> /\ joint_indices' = <<>>
  /\ subscribers' = EmptyFrames
  /\ ck' = 1 /\ cm' = 1
  /\ pc' = "c113"
  /\ UNCHANGED <<rpc, pause_simulation, bufVars, envVars, cbVars, loopVars,
                 boundVars, histVars>>

\* lines 113-117: head of the loop over the registry; the constructor returns
\* when the registry is exhausted and main() enters the loop (line 259)
ctor_for_joint ==
  /\ pc = "c113"
  /\ IF ck > numj
       THEN /\ pc' = "l245"
            /\ UNCHANGED <<force_commands, joint_indices>>
       ELSE /\ force_commands' = Append(force_commands, max_effort_vel_mode)
            /\ joint_indices' =
                 Append(joint_indices, joint_index_name_dictionary[ck].index)
            /\ pc' = "c25"
  /\ UNCHANGED <<rpc, ctorVars, pause_simulation, joint_index_name_dictionary,
                 subscribers, bufVars, envVars, cbVars, loopVars, boundVars,
                 histVars>>

\* the pveControl under construction
CtorBuf == <<ModeSeq[cm], joint_index_name_dictionary[ck].index>>

\* line 25: rospy.Subscriber(..., self.pvt_controlCB): callbacks can arrive now
pveControl_subscribe ==
  /\ pc = "c25"
  /\ subscribed' = subscribed \cup {CtorBuf}
  /\ pc' = "c26"
  /\ UNCHANGED <<rpc, ctorVars, wrapperVars, cmd, data_available, envVars, cbVars,
                 loopVars, boundVars, histVars>>

\* line 26: self.cmd = None
pveControl_init_cmd ==
  /\ pc = "c26"
  /\ cmd' = [cmd EXCEPT ![CtorBuf] = None]
  /\ wclean' = [wclean EXCEPT ![CtorBuf] = FALSE]
  /\ fresh' = [fresh EXCEPT ![CtorBuf] = 0]
  /\ pc' = "c27"
  /\ UNCHANGED <<rpc, ctorVars, wrapperVars, data_available, subscribed, envVars,
                 cbVars, loopVars, boundVars, startup_pause, lastCtl, tickCtl,
                 tickLog, calls, dispatched, seen, stale, lastWritten, handed, wpaused,
                 pausedWrite, quiet, credit, drain, firstNames>>

\* lines 27-29 and 119/121/123: self.data_available = False; the object joins
\* its list
pveControl_init_flag ==
  /\ pc = "c27"
  /\ data_available' = [data_available EXCEPT ![CtorBuf] = FALSE]
  /\ wclean' = [wclean EXCEPT ![CtorBuf] = FALSE]
  /\ fresh' = [fresh EXCEPT ![CtorBuf] = 0]
  /\ subscribers' = [subscribers EXCEPT ![ModeSeq[cm]] = Append(@, CtorBuf[2])]
  /\ IF cm < Len(ModeSeq)
       THEN cm' = cm + 1 /\ ck' = ck /\ pc' = "c25"
       ELSE cm' = 1 /\ ck' = ck + 1 /\ pc' = "c113"
  /\ UNCHANGED <<rpc, pause_simulation, joint_index_name_dictionary, joint_indices,
                 force_commands, cmd, subscribed, envVars, cbVars, loopVars,
                 boundVars, startup_pause, lastCtl, tickCtl, tickLog, calls,
                 dispatched, seen, stale, lastWritten, handed, wpaused, pausedWrite,
                 quiet, credit, drain, firstNames>>

Ctor ==
  \/ ctor_urdf_path \/ ctor_pause_param \/ start_gui \/ ctor_services
  \/ ctor_load_urdf \/ ctor_unpause \/ ctor_registry \/ ctor_for_joint
  \/ pveControl_subscribe \/ pveControl_init_cmd \/ pveControl_init_flag

\* ------------------------------------------- command callbacks (31-36)
\* line 35: self.data_available = True
pvt_controlCB_flag(b) ==
  /\ Alive /\ b \in subscribed /\ wpc[b] = "idle"
  /\ MayWrite(nwrites, nctl)
  /\ wval' = [wval EXCEPT ![b] = nwrites + 1]
  /\ data_available' = [data_available EXCEPT ![b] = TRUE]
  /\ wpc' = [wpc EXCEPT ![b] = "l36"]
  /\ nwrites' = nwrites + 1
  /\ wclean' = [wclean EXCEPT ![b] = TRUE]
  /\ wpaused' = [wpaused EXCEPT ![b] = paused_read]
  /\ quiet' = [quiet EXCEPT ![b] = FALSE]
  /\ stale' = [stale EXCEPT ![b] = FALSE]
  /\ credit' = [credit EXCEPT ![b] = @ + 1]
  /\ UNCHANGED <<pc, rpc, ctorVars, wrapperVars, cmd, subscribed, envVars,
                 loopVars, ticks, nctl, startup_pause, lastCtl, tickCtl, tickLog,
                 calls, dispatched, seen, lastWritten, handed, fresh, pausedWrite, drain,
                 firstNames>>

\* line 36: self.cmd = msg.data
pvt_controlCB_keep_first(b) ==
  /\ Alive /\ wpc[b] = "l36"
  /\ cmd' = [cmd EXCEPT ![b] = IF @ = None THEN wval[b] ELSE @]
  /\ lastWritten' = [lastWritten EXCEPT ![b] = wval[b]]
  /\ fresh' = [fresh EXCEPT ![b] = IF wclean[b] THEN @ + 1 ELSE 0]
  /\ pausedWrite' = [pausedWrite EXCEPT
                       ![b] = @ \/ (wclean[b] /\ wpaused[b] /\ paused_read)]
  /\ wpc' = [wpc EXCEPT ![b] = "idle"]
  /\ wval' = [wval EXCEPT ![b] = None]
  /\ quiet' = [quiet EXCEPT ![b] = FALSE]
  /\ stale' = [stale EXCEPT ![b] = FALSE]
  /\ wclean' = [wclean EXCEPT ![b] = FALSE]
  /\ wpaused' = [wpaused EXCEPT ![b] = FALSE]
  /\ UNCHANGED <<pc, rpc, ctorVars, wrapperVars, data_available, subscribed,
                 envVars, loopVars, boundVars, startup_pause, lastCtl, tickCtl,
                 tickLog, calls, dispatched, seen, credit, drain, firstNames,
                 handed>>

pvt_controlCB_cmd(b) ==
  /\ Alive /\ wpc[b] = "l36"
  /\ cmd' = [cmd EXCEPT ![b] = wval[b]]
  /\ lastWritten' = [lastWritten EXCEPT ![b] = wval[b]]
  /\ fresh' = [fresh EXCEPT ![b] = IF wclean[b] THEN @ + 1 ELSE 0]
  /\ pausedWrite' = [pausedWrite EXCEPT
                       ![b] = @ \/ (wclean[b] /\ wpaused[b] /\ paused_read)]
  /\ wpc' = [wpc EXCEPT ![b] = "idle"]
  /\ wval' = [wval EXCEPT ![b] = None]
  /\ quiet' = [quiet EXCEPT ![b] = FALSE]
  /\ stale' = [stale EXCEPT ![b] = FALSE]
  /\ wclean' = [wclean EXCEPT ![b] = FALSE]
  /\ wpaused' = [wpaused EXCEPT ![b] = FALSE]
  /\ UNCHANGED <<pc, rpc, ctorVars, wrapperVars, data_available, subscribed,
                 envVars, loopVars, boundVars, startup_pause, lastCtl, tickCtl,
                 tickLog, calls, dispatched, seen, credit, drain, firstNames,
                 handed>>

Callback == \E b \in Buffers : pvt_controlCB_flag(b) \/ pvt_controlCB_cmd(b)

\* ------------------------------------------- service handlers (197-219)
\* line 210: the value handle_pause_physics stores in self.pause_simulation
PauseFlag == FALSE
\* line 218: the value handle_unpause_physics stores in self.pause_simulation
UnpauseFlag == TRUE

handle_pause_physics ==
  /\ Alive /\ "pause_physics" \in services /\ MayRequest(nwrites, nctl)
  /\ pause_simulation' = PauseFlag
  /\ lastCtl' = [req |-> "pause", phase |-> Phase]
  /\ nctl' = nctl + 1
  /\ UNCHANGED <<pc, rpc, ctorVars, joint_index_name_dictionary, joint_indices,
                 force_commands, subscribers, bufVars, envVars, cbVars, loopVars,
                 ticks, nwrites, startup_pause, tickCtl, tickLog, calls,
                 dispatched, seen, stale, lastWritten, handed, wclean, wpaused, fresh,
                 pausedWrite, quiet, credit, drain, firstNames>>

handle_unpause_physics ==
  /\ Alive /\ "unpause_physics" \in services /\ MayRequest(nwrites, nctl)
  /\ pause_simulation' = UnpauseFlag
  /\ lastCtl' = [req |-> "unpause", phase |-> Phase]
  /\ nctl' = nctl + 1
  /\ UNCHANGED <<pc, rpc, ctorVars, joint_index_name_dictionary, joint_indices,
                 force_commands, subscribers, bufVars, envVars, cbVars, loopVars,
                 ticks, nwrites, startup_pause, tickCtl, tickLog, calls,
                 dispatched, seen, stale, lastWritten, handed, wclean, wpaused, fresh,
                 pausedWrite, quiet, credit, drain, firstNames>>

\* lines 201-202: the handler enters pb.resetSimulation()
handle_reset_simulation_call ==
  /\ Alive /\ "reset_simulation" \in services /\ MayRequest(nwrites, nctl)
  /\ rpc = "idle"
  /\ rpc' = "l202"
  /\ nctl' = nctl + 1
  /\ UNCHANGED <<pc, ctorVars, wrapperVars, bufVars, envVars, cbVars, loopVars,
                 ticks, nwrites, histVars>>

\* lines 202-203: pb.resetSimulation() returns, the world is a fresh one
handle_reset_simulation_rebuild ==
  /\ Alive /\ rpc = "l202"
  /\ world' = "reset"
  /\ rpc' = "idle"
  /\ data_available' = AllFalse
  /\ UNCHANGED <<pc, ctorVars, wrapperVars, cmd, subscribed, services, shutdown,
                 connected, robot, joint_states, npub, cbVars, loopVars,
                 boundVars, histVars>>

handle_reset_simulation_return ==
  /\ Alive /\ rpc = "l202"
  /\ world' = "reset"
  /\ rpc' = "idle"
  /\ UNCHANGED <<pc, ctorVars, wrapperVars, bufVars, services, shutdown,
                 connected, robot, joint_states, npub, cbVars, loopVars,
                 boundVars, histVars>>

Handler ==
  \/ handle_pause_physics \/ handle_unpause_physics
  \/ handle_reset_simulation_call \/ handle_reset_simulation_return

\* the node is asked to shut down (rospy.is_shutdown() turns true).  The flag
\* is read by the test of line 245 and by the sleep of line 252 only, so a
\* signal is taken where it is read, or inside a tick before the last engine
\* call of the tick: wherever else in the tick it arrives, the tick goes on
\* as it does from there.
Shutdown ==
  /\ pc \in {"l245", "l187", "l252"} /\ ~shutdown
  /\ shutdown' = TRUE
  /\ UNCHANGED <<pc, rpc, ctorVars, wrapperVars, bufVars, services, connected,
                 robot, world, joint_states, npub, cbVars, loopVars, boundVars,
                 histVars>>

\* ------------------------------- start_pybullet_ros_wrapper (241-254)
\* line 245: while not rospy.is_shutdown()
loop_while ==
  /\ pc = "l245"
  /\ shutdown \/ ticks < MaxTicks
  /\ pc' = IF shutdown THEN "l254" ELSE "l246"
  /\ UNCHANGED <<rpc, ctorVars, wrapperVars, bufVars, envVars, cbVars, loopVars,
                 boundVars, histVars>>

\* line 246: if not self.pause_simulation
RunsTickAlways(p) == TRUE
RunsTick(p) == ~p

loop_read_pause_skip_step ==
  /\ pc = "l246"
  /\ paused_read' = pause_simulation
  /\ pc' = IF RunsTick(pause_simulation) THEN "l228" ELSE "l252"
  /\ joint_msg' = <<>>
  /\ ticks' = ticks + 1
  /\ tickCtl' = lastCtl
  /\ tickLog' = <<>> /\ calls' = <<>> /\ dispatched' = FALSE
  /\ UNCHANGED <<rpc, ctorVars, wrapperVars, bufVars, envVars, cbVars,
                 dm, dk, commands, ctrl_task, nwrites, nctl, startup_pause,
                 lastCtl, seen, stale, lastWritten, handed, wclean, wpaused, fresh,
                 pausedWrite, quiet, credit, drain, firstNames>>

loop_read_pause ==
  /\ pc = "l246"
  /\ paused_read' = pause_simulation
  /\ pc' = IF RunsTick(pause_simulation) THEN "l247" ELSE "l252"
  /\ ticks' = ticks + 1
  /\ tickCtl' = lastCtl
  /\ tickLog' = <<>> /\ calls' = <<>> /\ dispatched' = FALSE
  /\ UNCHANGED <<rpc, ctorVars, wrapperVars, bufVars, envVars, cbVars, joint_msg,
                 dm, dk, commands, ctrl_task, nwrites, nctl, startup_pause,
                 lastCtl, seen, stale, lastWritten, handed, wclean, wpaused, fresh,
                 pausedWrite, quiet, credit, drain, firstNames>>

\* the main thread dies of an exception raised by an engine call
Raise ==
  /\ pc' = "crashed"
  /\ UNCHANGED <<rpc, ctorVars, wrapperVars, bufVars, envVars, cbVars, loopVars,
                 boundVars, histVars>>

\* line 247: pb.stepSimulation()
loop_step ==
  /\ pc = "l247"
  /\ \E ok \in BOOLEAN :
       IF ok
         THEN /\ tickLog' = Append(tickLog, "step")
              /\ joint_msg' = <<>>
              /\ pc' = "l228"
              /\ UNCHANGED <<rpc, ctorVars, wrapperVars, bufVars, envVars, cbVars,
                             paused_read, dm, dk, commands, ctrl_task, boundVars,
                             startup_pause, lastCtl, tickCtl, calls, dispatched,
                             seen, stale, lastWritten, handed, wclean, wpaused, fresh,
                             pausedWrite, quiet, credit, drain, firstNames>>
         ELSE Raise

\* publish_joint_states (221-239)
\* lines 230-235: the entry of the k-th joint of the registry
JointEntryFirstName(k) ==
  [name |-> joint_index_name_dictionary[1].name,
   joint |-> joint_index_name_dictionary[k].index]
JointEntry(k) ==
  [name |-> joint_index_name_dictionary[k].name,
   joint |-> joint_index_name_dictionary[k].index]

\* lines 228-235: one pass of the loop over the registry
publish_query ==
  /\ pc = "l228"
  /\ Len(joint_msg) < numj
  /\ \E ok \in BOOLEAN :
       IF ok
         THEN /\ joint_msg' = Append(joint_msg, JointEntry(Len(joint_msg) + 1))
              /\ UNCHANGED <<pc, rpc, ctorVars, wrapperVars, bufVars, envVars,
                             cbVars, paused_read, dm, dk, commands, ctrl_task,
                             boundVars, histVars>>
         ELSE Raise

SnapshotNames(msg) == [i \in 1..Len(msg) |-> msg[i].name]

\* lines 237-239: stamp and publish
publish_send ==
  /\ pc = "l228"
  /\ Len(joint_msg) = numj
  /\ joint_states' = joint_msg
  /\ npub' = npub + 1
  /\ firstNames' = IF npub = 0 THEN SnapshotNames(joint_msg) ELSE firstNames
  /\ tickLog' = Append(tickLog, "publish")
  /\ pc' = "l167"
  /\ UNCHANGED <<rpc, ctorVars, wrapperVars, bufVars, services, shutdown,
                 connected, robot, world, cbVars, loopVars, boundVars,
                 startup_pause, lastCtl, tickCtl, calls, dispatched, seen, stale,
                 lastWritten, handed, wclean, wpaused, fresh, pausedWrite, quiet, credit,
                 drain>>

\* line 252: self.loop_rate.sleep().  rospy.Rate.sleep returns when the period
\* is over, or raises ROSInterruptException when the node is shut down before
\* that; nothing between line 252 and main() catches it.
loop_sleep ==
  /\ pc = "l252"
  /\ \E interrupted \in {FALSE, shutdown} :
       IF interrupted
         THEN Raise
         ELSE /\ pc' = "l245"
              /\ tickLog' = <<>> /\ calls' = <<>> /\ dispatched' = FALSE
              /\ seen' = AllFalse /\ stale' = AllFalse /\ drain' = NoDrain
              /\ startup_pause' = FALSE
              /\ UNCHANGED <<rpc, ctorVars, wrapperVars, bufVars, envVars, cbVars,
                             loopVars, boundVars, lastCtl, tickCtl, lastWritten,
                             handed, wclean, wpaused, fresh, pausedWrite, quiet,
                             credit, firstNames>>

\* line 254: pb.disconnect()
loop_disconnect ==
  /\ pc = "l254"
  /\ connected' = "closed"
  /\ pc' = "done"
  /\ UNCHANGED <<rpc, ctorVars, wrapperVars, bufVars, services, shutdown, robot,
                 world, joint_states, npub, cbVars, loopVars, boundVars, histVars>>

\* ------------------------------------------------ pve_ctrl_cmd (163-195)
\* lines 167-173: the locals of one dispatch
dispatch_begin_recheck ==
  /\ pc = "l167"
  /\ commands' = EmptyFrames /\ ctrl_task' = NoTasks
  /\ dm' = 1 /\ dk' = 1
  /\ seen' = AllFalse
  /\ stale' = data_available
  /\ tickLog' = Append(tickLog, "dispatch")
  /\ pc' = IF pause_simulation THEN "l252"
           ELSE IF numj = 0 THEN "l187" ELSE "l175"
  /\ UNCHANGED <<rpc, ctorVars, wrapperVars, bufVars, envVars, cbVars, paused_read,
                 joint_msg, boundVars, startup_pause, lastCtl, tickCtl, calls,
                 dispatched, lastWritten, handed, wclean, wpaused, fresh,
                 pausedWrite, quiet, credit, drain, firstNames>>

dispatch_begin ==
  /\ pc = "l167"
  /\ commands' = EmptyFrames /\ ctrl_task' = NoTasks
  /\ dm' = 1 /\ dk' = 1
  /\ seen' = AllFalse
  /\ stale' = data_available
  /\ tickLog' = Append(tickLog, "dispatch")
  /\ pc' = IF numj = 0 THEN "l187" ELSE "l175"
  /\ UNCHANGED <<rpc, ctorVars, wrapperVars, bufVars, envVars, cbVars, paused_read,
                 joint_msg, boundVars, startup_pause, lastCtl, tickCtl, calls,
                 dispatched, lastWritten, handed, wclean, wpaused, fresh, pausedWrite,
                 quiet, credit, drain, firstNames>>

\* the pveControl the three for loops (174, 178, 182) stand at
DrainBuf == <<ModeSeq[dm], subscribers[ModeSeq[dm]][dk]>>

\* the for loops advance: next subscriber, next list, or the forwarding part
AdvanceUntilTask ==
  IF dk < Len(subscribers[ModeSeq[dm]])
    THEN dm' = dm /\ dk' = dk + 1 /\ pc' = "l175"
    ELSE IF dm < Len(ModeSeq) /\ ~ctrl_task[ModeSeq[dm]] /\ pc # "l43"
      THEN dm' = dm + 1 /\ dk' = 1 /\ pc' = "l175"
      ELSE dm' = 1 /\ dk' = 1 /\ pc' = "l187"
Advance ==
  IF dk < Len(subscribers[ModeSeq[dm]])
    THEN dm' = dm /\ dk' = dk + 1 /\ pc' = "l175"
    ELSE IF dm < Len(ModeSeq)
      THEN dm' = dm + 1 /\ dk' = 1 /\ pc' = "l175"
      ELSE dm' = 1 /\ dk' = 1 /\ pc' = "l187"

\* lines 175, 179, 183: if subscriber.is_data_available()
is_data_available ==
  /\ pc = "l175"
  /\ LET b == DrainBuf
         avail == data_available[b]
     IN /\ seen' = [seen EXCEPT ![b] = avail]
        /\ drain' = [buf |-> b, fresh |-> fresh[b], quiet |-> quiet[b],
                     pending |-> avail, done |-> ~avail, value |-> None,
                     last |-> None]
        /\ fresh' = [fresh EXCEPT ![b] = 0]
        /\ wclean' = [wclean EXCEPT ![b] = FALSE]
        /\ quiet' = [quiet EXCEPT ![b] = @ \/ ~avail]
        /\ IF avail
             THEN pc' = "l42" /\ UNCHANGED <<dm, dk>>
             ELSE Advance
  /\ UNCHANGED <<rpc, ctorVars, wrapperVars, bufVars, envVars, cbVars, paused_read,
                 joint_msg, commands, ctrl_task, boundVars, startup_pause,
                 lastCtl, tickCtl, tickLog, calls, dispatched, stale, lastWritten, handed,
                 wpaused, pausedWrite, credit, firstNames>>

\* line 42: get_cmd: self.data_available = False
get_cmd_keep_flag ==
  /\ pc = "l42"
  /\ LET b == DrainBuf
     IN /\ quiet' = [quiet EXCEPT ![b] = TRUE]
        /\ pausedWrite' = [pausedWrite EXCEPT ![b] = FALSE]
        /\ wclean' = [wclean EXCEPT ![b] = FALSE]
        /\ fresh' = [fresh EXCEPT ![b] = 0]
  /\ pc' = "l43"
  /\ UNCHANGED <<rpc, ctorVars, wrapperVars, bufVars, envVars, cbVars,
                 loopVars, boundVars, startup_pause, lastCtl, tickCtl, tickLog,
                 calls, dispatched, seen, stale, lastWritten, handed, wpaused,
                 credit, drain, firstNames>>

get_cmd_clear ==
  /\ pc = "l42"
  /\ LET b == DrainBuf
     IN /\ data_available' = [data_available EXCEPT ![b] = FALSE]
        /\ quiet' = [quiet EXCEPT ![b] = TRUE]
        /\ pausedWrite' = [pausedWrite EXCEPT ![b] = FALSE]
        /\ wclean' = [wclean EXCEPT ![b] = FALSE]
        /\ fresh' = [fresh EXCEPT ![b] = 0]
  /\ pc' = "l43"
  /\ UNCHANGED <<rpc, ctorVars, wrapperVars, cmd, subscribed, envVars, cbVars,
                 loopVars, boundVars, startup_pause, lastCtl, tickCtl, tickLog,
                 calls, dispatched, seen, stale, lastWritten, handed, wpaused,
                 credit, drain, firstNames>>

\* line 43 and lines 176-177, 180-181, 184-185: return self.cmd; the value is
\* appended to the list of its mode and the mode's flag is raised
get_cmd_return ==
  /\ pc = "l43"
  /\ LET b == DrainBuf
     IN /\ commands' = [commands EXCEPT ![b[1]] = Append(@, cmd[b])]
        /\ ctrl_task' = [ctrl_task EXCEPT ![b[1]] = TRUE]
        /\ drain' = [drain EXCEPT !.value = cmd[b], !.last = lastWritten[b],
                                  !.done = TRUE]
        /\ credit' = [credit EXCEPT ![b] = @ - 1]
        /\ handed' = handed \cup {cmd[b]}
        /\ wclean' = [wclean EXCEPT ![b] = FALSE]
        /\ fresh' = [fresh EXCEPT ![b] = 0]
  /\ Advance
  /\ UNCHANGED <<rpc, ctorVars, wrapperVars, bufVars, envVars, cbVars, paused_read,
                 joint_msg, boundVars, startup_pause, lastCtl, tickCtl, tickLog,
                 calls, dispatched, seen, stale, lastWritten, wpaused,
                 pausedWrite, quiet, firstNames>>

\* the three calls of lines 188-195
PositionCall ==
  [controlMode |-> "POSITION_CONTROL", jointIndices |-> joint_indices,
   targets |-> commands["position"], forces |-> force_commands]
VelocityCall ==
  [controlMode |-> "VELOCITY_CONTROL", jointIndices |-> joint_indices,
   targets |-> commands["velocity"], forces |-> force_commands]
TorqueCall ==
  [controlMode |-> "TORQUE_CONTROL", jointIndices |-> joint_indices,
   targets |-> <<>>, forces |-> commands["effort"]]

\* lines 187-195: if / elif / elif
ForwardEachMode ==
  (IF ctrl_task["position"] THEN <<PositionCall>> ELSE <<>>)
  \o (IF ctrl_task["velocity"] THEN <<VelocityCall>> ELSE <<>>)
  \o (IF ctrl_task["effort"] THEN <<TorqueCall>> ELSE <<>>)
ForwardEffortFirst ==
  IF ctrl_task["effort"] THEN <<TorqueCall>>
  ELSE IF ctrl_task["velocity"] THEN <<VelocityCall>>
  ELSE IF ctrl_task["position"] THEN <<PositionCall>>
  ELSE <<>>
Forward ==
  IF ctrl_task["position"] THEN <<PositionCall>>
  ELSE IF ctrl_task["velocity"] THEN <<VelocityCall>>
  ELSE IF ctrl_task["effort"] THEN <<TorqueCall>>
  ELSE <<>>

\* lines 187-195: the commands go to pb.setJointMotorControlArray
forward_commands ==
  /\ pc = "l187"
  /\ dispatched' = TRUE
  /\ calls' = calls \o Forward
  /\ tickLog' = tickLog \o [i \in 1..Len(Forward) |-> "actuate"]
  /\ \E ok \in BOOLEAN :
       /\ ok \/ Forward # <<>>
       /\ pc' = IF ok THEN "l252" ELSE "crashed"
  /\ UNCHANGED <<rpc, ctorVars, wrapperVars, bufVars, envVars, cbVars, loopVars,
                 boundVars, startup_pause, lastCtl, tickCtl, seen, stale,
                 lastWritten, handed, wclean, wpaused, fresh, pausedWrite, quiet, credit,
                 drain, firstNames>>

Loop ==
  \/ loop_while \/ loop_read_pause \/ loop_step
  \/ publish_query \/ publish_send
  \/ dispatch_begin \/ is_data_available \/ get_cmd_clear \/ get_cmd_return
  \/ forward_commands
  \/ loop_sleep \/ loop_disconnect

Next == Ctor \/ Callback \/ Handler \/ Shutdown \/ Loop

Spec == Init /\ [][Next]_vars

\* ---------------------------------------------- the loop, left to run
\* The node as main() finds it when the constructor has returned for a robot
\* of two revolute joints, no command received and no request handled.
Constructed ==
  /\ pc = "l245" /\ ck = 3 /\ cm = 1 /\ rpc = "idle"
  /\ pause_simulation = StartupPause
  /\ joint_index_name_dictionary =
       JointNamesFrom([j \in JointIds |-> JOINT_REVOLUTE], 0)
  /\ joint_indices = <<0, 1>>
  /\ force_commands = <<max_effort_vel_mode, max_effort_vel_mode>>
  /\ subscribers = [m \in Modes |-> <<0, 1>>]
  /\ cmd = [b \in Buffers |-> None]
  /\ data_available = AllFalse
  /\ subscribed = Buffers
  /\ services = {"reset_simulation", "pause_physics", "unpause_physics"}
  /\ shutdown = FALSE /\ connected = "open"
  /\ robot = [j \in JointIds |-> JOINT_REVOLUTE] /\ world = "loaded"
  /\ joint_states = <<>> /\ npub = 0
  /\ wpc = [b \in Buffers |-> "idle"] /\ wval = [b \in Buffers |-> None]
  /\ paused_read = FALSE /\ joint_msg = <<>> /\ dm = 1 /\ dk = 1
  /\ commands = EmptyFrames /\ ctrl_task = NoTasks
  /\ ticks = 0 /\ nwrites = 0 /\ nctl = 0
  /\ startup_pause = FALSE /\ lastCtl = NoCtl /\ tickCtl = NoCtl
  /\ tickLog = <<>> /\ calls = <<>> /\ dispatched = FALSE
  /\ seen = AllFalse /\ stale = AllFalse
  /\ lastWritten = [b \in Buffers |-> None]
  /\ wclean = AllFalse /\ wpaused = AllFalse
  /\ fresh = [b \in Buffers |-> 0]
  /\ pausedWrite = AllFalse /\ quiet = AllFalse
  /\ credit = [b \in Buffers |-> 0]
  /\ drain = NoDrain /\ firstNames = <<>> /\ handed = {}

\* the steps of the main thread while no shutdown is signalled
Tick ==
  \/ loop_while \/ loop_read_pause \/ loop_step
  \/ publish_query \/ publish_send
  \/ dispatch_begin \/ is_data_available \/ get_cmd_clear \/ get_cmd_return
  \/ forward_commands
  \/ loop_sleep

\* commands keep arriving; no pause, resume, reset or shutdown is requested;
\* the main thread is scheduled as long as it has a step to make
RunNext == Callback \/ Tick
RunSpec == Constructed /\ [][RunNext]_vars /\ WF_vars(Tick)

\* ================================================================ claims
Range(q) == {q[i] : i \in 1..Len(q)}
\* the main thread is inside an iteration of the loop, past the test of 246
InTick == pc \in {"l247", "l228", "l167", "l175", "l42", "l43", "l187", "l252"}
\* the current tick makes, or has made, its engine step
Stepping == pc = "l247" \/ "step" \in Range(tickLog)
SeenMode(m) == \E j \in JointIds : seen[<<m, j>>]
CallModes == [i \in 1..Len(calls) |-> calls[i].controlMode]

\* C1: after a pause request is handled (the constructor having returned) the
\* next tick makes no engine step, and after a resume request is handled the
\* next tick makes one.
C1_PauseStopsResumeSteps ==
  (InTick /\ tickCtl.phase = "run") =>
     /\ (tickCtl.req = "pause" => ~Stepping)
     /\ (tickCtl.req = "unpause" => Stepping)

\* C2: a tick that read the flag as paused goes straight to the sleep of line
\* 252: no engine step, no publication, no dispatch, no actuation call; and a
\* buffer a callback wrote inside paused ticks stays pending, holding the last
\* value written, until a tick that runs drains it.
C2_PausedTickIdle ==
  /\ (InTick /\ paused_read) =>
        pc = "l252" /\ tickLog = <<>> /\ calls = <<>> /\ ~dispatched
  /\ \A b \in Buffers :
        pausedWrite[b] => data_available[b] /\ cmd[b] = lastWritten[b]

\* a running tick is about to test a buffer that was written while paused
C2_Witness ==
  /\ pc = "l175" /\ ~paused_read
  /\ pausedWrite[DrainBuf] /\ tickCtl.phase = "run"

C4_LatestWriteWins ==
  /\ \A b \in Buffers :
        fresh[b] > 0 => data_available[b] /\ cmd[b] = lastWritten[b]
  /\ drain.fresh > 0 =>
        drain.pending /\ (drain.done => drain.value = drain.last)

\* two messages were written to one buffer, then a drain returned the second
C4_Witness ==
  drain.done /\ drain.fresh = 2 /\ drain.pending /\ drain.value = 2

\* C5: a buffer that was drained and on which no callback step ran since is
\* not pending, so the next drain finds it not pending; and no buffer hands
\* more values to dispatch than callbacks were begun on it.
C5_SecondDrainEmpty ==
  /\ \A b \in Buffers : quiet[b] => ~data_available[b]
  /\ drain.quiet => ~drain.pending
  /\ \A b \in Buffers : credit[b] >= 0

\* a buffer that handed its value to the first tick is found empty by the second
C5_Witness ==
  /\ ticks = 2 /\ drain.quiet /\ drain.done /\ ~drain.pending
  /\ drain.buf \in Buffers
  /\ lastWritten[drain.buf] # None /\ credit[drain.buf] = 0

\* C6: the one actuation call of a dispatch is the position call when a
\* position buffer was found pending, else the velocity call when a velocity
\* buffer was, else the torque call when an effort buffer was; and every buffer
\* that was pending when the dispatch began and was not written since is not
\* pending when the dispatch forwards.
C6_ModePriority ==
  dispatched =>
     /\ SeenMode("position") => CallModes = <<"POSITION_CONTROL">>
     /\ (~SeenMode("position") /\ SeenMode("velocity")) =>
           CallModes = <<"VELOCITY_CONTROL">>
     /\ (~SeenMode("position") /\ ~SeenMode("velocity") /\ SeenMode("effort")) =>
           CallModes = <<"TORQUE_CONTROL">>
     /\ \A b \in Buffers : stale[b] => ~data_available[b]

\* position wins over a velocity command that was pending and is now cleared
C6_Witness ==
  /\ dispatched /\ SeenMode("position")
  /\ \E j \in JointIds : stale[<<"velocity", j>>] /\ seen[<<"velocity", j>>]

\* C7: a dispatch issues no actuation call when it found no buffer pending and
\* exactly one otherwise; no tick ever issues two.
C7_AtMostOneCall ==
  /\ Len(calls) <= 1
  /\ dispatched =>
        Len(calls) = IF \E b \in Buffers : seen[b] THEN 1 ELSE 0

\* two buffers were pending and one call was made
C7_Witness ==
  dispatched /\ Len(calls) = 1 /\ Cardinality({b \in Buffers : seen[b]}) = 2

\* the joints whose buffer of mode m was found pending, in registry order
PendingJoints(m) == SelectSeq(joint_indices, LAMBDA j : seen[<<m, j>>])
ModeOfCall(c) ==
  IF c.controlMode = "POSITION_CONTROL" THEN "position"
  ELSE IF c.controlMode = "VELOCITY_CONTROL" THEN "velocity" ELSE "effort"
ValuesOfCall(c) ==
  IF c.controlMode = "TORQUE_CONTROL" THEN c.forces ELSE c.targets

\* C8: the actuation call names exactly the joints whose buffer of the active
\* mode was found pending, in registry order, with as many values as joints.
C8_CallNamesPendingJoints ==
  (dispatched /\ calls # <<>>) =>
     /\ calls[1].jointIndices = PendingJoints(ModeOfCall(calls[1]))
     /\ Len(calls[1].jointIndices) = Len(ValuesOfCall(calls[1]))

\* C9: every message published on /joint_states has one entry per joint of the
\* registry, in registry order, each with the registry name of the joint whose
\* state was read; the names are those of the first message.
C9_SnapshotMatchesRegistry ==
  npub > 0 =>
     /\ Len(joint_states) = numj
     /\ \A i \in 1..Len(joint_states) :
           /\ i <= numj
           /\ joint_states[i].joint = joint_index_name_dictionary[i].index
           /\ joint_states[i].name = joint_index_name_dictionary[i].name
           /\ joint_states[i].name = JointName(joint_states[i].joint)
     /\ SnapshotNames(joint_states) = firstNames

\* the second message of a two-joint robot, after a tick that handed a command
C9_Witness ==
  /\ npub = 2 /\ numj = 2 /\ pc = "l167"
  /\ \E b \in Buffers : lastWritten[b] # None /\ credit[b] = 0

\* C10: the steps of the reset handler change nothing of the wrapper, the
\* buffers or the loop (only the engine world), and once the constructor has
\* returned no step changes the registry or the lists of buffers.
C10_ResetFrame ==
  [][ /\ (rpc' # rpc) =>
           UNCHANGED <<pc, ctorVars, wrapperVars, bufVars, services, shutdown,
                       connected, robot, joint_states, npub, cbVars, loopVars>>
      /\ CtorDone =>
           UNCHANGED <<joint_index_name_dictionary, joint_indices,
                       force_commands, subscribers, subscribed>> ]_vars

\* a reset was handled while the loop was paused and a command was pending
C10_Witness ==
  /\ world = "reset" /\ rpc = "idle" /\ CtorDone
  /\ pause_simulation /\ paused_read
  /\ \E b \in Buffers : data_available[b] /\ cmd[b] # None

\* C11, as stated: handling a pause request while the flag says paused leaves
\* it paused, and handling a resume request while it says running leaves it
\* running.
C11_Idempotent ==
  [][ (nctl' # nctl /\ rpc' = rpc) =>
         /\ (lastCtl'.req = "pause" /\ pause_simulation) => pause_simulation'
         /\ (lastCtl'.req = "unpause" /\ ~pause_simulation) => ~pause_simulation'
    ]_vars

\* C12, as stated: the loop leaves line 245 for line 254 only with the shutdown
\* observed and no step, publication or dispatch after that, and once the
\* shutdown is signalled the main thread ends only by way of line 254, with the
\* engine connection released.
C12_ShutdownExitsAndReleases ==
  /\ pc \in {"l254", "done"} => shutdown /\ tickLog = <<>>
  /\ pc = "done" => connected = "closed"
  /\ (shutdown /\ pc \in EndPcs) => pc = "done"

\* the calls of one tick that runs, in order
TickOrder == <<"step", "publish", "dispatch", "actuate">>
IsPrefix(s, q) == Len(s) <= Len(q) /\ \A i \in 1..Len(s) : s[i] = q[i]

\* C13: the calls of a tick that runs are one engine step, then one
\* publication, then one dispatch with its actuation call if any, each made
\* once and in that order: no step follows the actuation call in its tick, the
\* snapshot is published before the dispatch, and nothing of a tick is left
\* when the next one begins.
C13_TickOrder ==
  /\ IsPrefix(tickLog, TickOrder)
  /\ (InTick /\ ~paused_read) =>
        /\ pc = "l247" => tickLog = <<>>
        /\ pc = "l228" => tickLog = <<"step">>
        /\ pc = "l167" => tickLog = <<"step", "publish">>
        /\ pc \in {"l175", "l42", "l43", "l187"} =>
              tickLog = <<"step", "publish", "dispatch">>
        /\ pc = "l252" =>
              /\ dispatched
              /\ SubSeq(tickLog, 1, 3) = <<"step", "publish", "dispatch">>
              /\ Len(tickLog) = 3 + Len(calls)
  /\ pc \in {"l245", "l246"} => tickLog = <<>> /\ calls = <<>>

\* the second tick made all four calls
C13_Witness ==
  pc = "l252" /\ ticks = 2 /\ npub = 2 /\ tickLog = TickOrder

\* C14: the flag is read at line 246 only; a step that changes the flag while
\* a tick is in progress moves nothing of the loop; a tick that read the flag
\* as running reaches the sleep with its step, publication and dispatch made
\* whatever the flag has become, and a tick that read it as paused makes none.
C14_MidTickRequestWaits ==
  /\ [](( InTick /\ pause_simulation # paused_read) =>
          IF paused_read
            THEN pc = "l252" /\ tickLog = <<>>
            ELSE pc = "l252" => dispatched /\ Len(tickLog) >= 3)
  /\ [][ /\ (pause_simulation' # pause_simulation /\ InTick) =>
              (pc' = pc /\ UNCHANGED <<paused_read, tickLog, calls, loopVars>>)
         /\ (paused_read' # paused_read) =>
              (pc = "l246" /\ paused_read' = pause_simulation)
       ]_vars

\* a tick that began running ends with its dispatch made, the flag having been
\* set to paused by a request handled during the tick
C14_Witness ==
  /\ pc = "l252" /\ ~paused_read /\ pause_simulation /\ dispatched
  /\ lastCtl # tickCtl /\ Len(tickLog) >= 3

\* C15, as stated: the reset handler is never inside pb.resetSimulation()
\* while the loop is between the engine step and the end of the dispatch.
C15_ResetSerialized ==
  ~(rpc = "l202" /\ pc \in {"l247", "l228", "l167", "l175", "l42", "l43", "l187"})

\* C16, as stated: once a drain that found its buffer pending has returned and
\* the callbacks on that buffer have completed, the buffer is pending or stores
\* the very value the drain returned: no write is left stored and not pending.
C16_NoWriteLost ==
  (/\ drain.done /\ drain.pending
   /\ wpc[drain.buf] = "idle" /\ ~data_available[drain.buf])
     => cmd[drain.buf] = drain.value

\* C17, as stated: the flag holds what the last handled pause or resume request
\* stored, from the registration of the services on.
C17_AckedRequestPersists ==
  /\ lastCtl.req = "pause" => pause_simulation = PauseFlag
  /\ lastCtl.req = "unpause" => pause_simulation = UnpauseFlag

\* C18, as stated: when the main thread has ended after the engine was
\* connected, by the shutdown or by a failed engine call, the connection is
\* released; and a failed call is the last call of its tick.
C18_ReleasedOnEveryExit ==
  /\ pc \in {"crashed", "done"} => connected = "closed"
  /\ pc = "crashed" => IsPrefix(tickLog, TickOrder)

\* C19, as stated: the value get_cmd is about to return is not None and was
\* not returned by an earlier drain.
C19_ForwardsFreshValues ==
  pc = "l43" => cmd[DrainBuf] # None /\ cmd[DrainBuf] \notin handed

\* the loop has come to an end of the run: the main thread has ended, or the
\* last tick explored is over
RunEnds == pc \in EndPcs \/ (pc = "l245" /\ ticks = MaxTicks)

\* C20: while the loop runs and is not shut down, a buffer that is pending is
\* drained in the end; and every buffer that was pending when a dispatch began
\* and was not written since is not pending once the dispatch has gone through
\* the three lists, whichever mode the dispatch forwards.
C20_PendingIsDrained ==
  /\ \A b \in Buffers :
        data_available[b] ~> (~data_available[b] \/ RunEnds)
  /\ []((pc = "l187" \/ dispatched) =>
          \A b \in Buffers : stale[b] => ~data_available[b])

\* a dispatch forwarded the position command and left the effort command that
\* was pending with it drained too
C20_Witness ==
  /\ pc = "l252" /\ dispatched /\ seen[<<"position", 0>>]
  /\ stale[<<"effort", 1>>] /\ ~data_available[<<"effort", 1>>]
  /\ CallModes = <<"POSITION_CONTROL">>

====
